---- MODULE Spec2Model ----
(***************************************************************************)
(* State-machine model of supreme_bot/automate_buy.py: the orchestrator    *)
(* buy(), the drop monitor wait_for_drop(), the per-item acquisition       *)
(* add_item_to_cart() and the human-in-the-loop CAPTCHA gate; and of the   *)
(* start-up of supreme_bot/update.py (proxy selection, driver creation).   *)
(*                                                                         *)
(* The program is one sequential thread: pc is its position.  The page is  *)
(* external: every observation of it (is_queue_state, is_visible,          *)
(* detect_captcha, a network response) and the outcome of every Playwright *)
(* call that can raise is an input chosen with \E in the step that makes   *)
(* the call.  Time is counted in seconds slept since a recorded timestamp. *)
(***************************************************************************)
EXTENDS Integers, Sequences, FiniteSets, TLC

\* ------------------------------------------------------------- bounds
MaxItems == 2
MaxStale == 1
MaxResponses == 1
MaxProxies == 2

\* -------------------------------------------------- program constants
StuckTimeout == 300
Deadline == 300
CaptchaPolls == 10

QueueJitter == {5, 10}
SearchJitter == {5, 15}

\* Seconds a page.reload(wait_until="networkidle", timeout=30000) that succeeds
\* can take: never zero (the network must stay idle first), at most the timeout.
LoadTimes == {5, 30}

BoxLogo == [keywords |-> "Box Logo Hooded Sweatshirt - Green", size |-> "Large"]
Ushanka == [keywords |-> "Ushanka Hat", size |-> "One Size"]
ItemSet == {BoxLogo, Ushanka}

RECURSIVE SeqsUpTo(_, _)
SeqsUpTo(S, n) ==
    IF n = 0 THEN {<<>>}
    ELSE LET shorter == SeqsUpTo(S, n - 1)
         IN  shorter \cup {Append(s, x) : s \in {t \in shorter : Len(t) = n - 1}, x \in S}

ItemLists == SeqsUpTo(ItemSet, MaxItems)

\* update.py: the entries a proxies.json can hold, and its possible contents.
ProxySet == {"proxy-a:8080", "proxy-b:8080"}
ProxyLists == SeqsUpTo(ProxySet, MaxProxies)
ProxyFiles ==
    {[state |-> "missing", content |-> <<>>], [state |-> "invalid", content |-> <<>>]}
    \cup {[state |-> "valid", content |-> ps] : ps \in ProxyLists}

\* update.py: sys.argv[1:] is empty, not a number, or an integer.
ArgvInts == (0 - (MaxProxies + 1))..(MaxProxies + 1)
Argvs ==
    {[kind |-> "none", value |-> 0], [kind |-> "junk", value |-> 0]}
    \cup {[kind |-> "int", value |-> n] : n \in ArgvInts}

VARIABLES
    pc,             \* position of the thread
    gateRet,        \* where captcha_check returns to
    items,          \* argument of the running buy()
    idx,            \* 1-based position of the for loop of buy()
    results_queue,  \* module-level Queue: sequence of <<keywords, success>>
    outcomes,       \* values add_item_to_cart returned in the running buy()
    failed_items,   \* local list of buy()
    checkout,       \* checkout operations invoked by the running buy(), in order
    context,        \* "none" | "open" | "closed"
    exc,            \* TRUE when the running buy() is unwinding an exception
    d,              \* seconds slept since `deadline` was computed (line 136)
    q,              \* seconds slept since queue_start (lines 100, 142)
    ret,            \* return value of the last add_item_to_cart: "none"|"True"|"False"|"raised"
    found,          \* local `found` of add_item_to_cart
    wfdClass,       \* last is_queue_state result in wait_for_drop since the last reload
    detect,         \* last detect_captcha result of the running gate: "none"|"yes"|"no"
    polls,          \* iterations of the for loop of wait_for_captcha
    netErr,         \* a reload of the item-search loop raised in this acquisition
    sizeCond,       \* what the page offered at size selection in this acquisition
    atcClicked,     \* the add-to-cart control was activated in this acquisition
    resps,          \* responses that arrived within the expect_response window
    ui,             \* the page shows the cart badge / remove-from-cart control
    navPending,     \* a page.reload/page.goto succeeded and captcha_check has not run since
    backoff,        \* seconds slept by the last exception handler of the running
                    \* wait_for_drop call (0: no exception so far)
    upc,            \* update.py: position of the script
    argv,           \* update.py: the command-line argument
    proxyFile,      \* update.py: what PROXY_FILE is on disk
    instance_id,    \* update.py
    proxies,        \* update.py
    proxy,          \* update.py
    driver          \* update.py: webdriver.Chrome(...) has been created

vars == <<pc, gateRet, items, idx, results_queue, outcomes, failed_items, checkout,
          context, exc, d, q, ret, found, wfdClass, detect, polls, netErr, sizeCond,
          atcClicked, resps, ui, navPending, backoff,
          upc, argv, proxyFile, instance_id, proxies, proxy, driver>>

buyVars == <<items, idx, results_queue, outcomes, failed_items, checkout, context, exc>>
acqVars == <<d, q, ret, found, netErr, sizeCond, atcClicked, resps, ui>>
gateVars == <<gateRet, detect, polls>>
updVars == <<upc, argv, proxyFile, instance_id, proxies, proxy, driver>>
botVars == <<pc, wfdClass, navPending, backoff, buyVars, acqVars, gateVars>>

SetMax(S) == CHOOSE x \in S : \A y \in S : y <= x

\* The outcome of a Playwright call that can raise.
CallOutcomes == {"ok", "PWTimeout", "Error"}

\* An exception leaves the try block of buy(): the finally clause runs next.
Unwind ==
    /\ exc' = TRUE
    /\ pc' = "b_finally"

Init ==
    /\ pc = "idle"
    /\ gateRet = "none"
    /\ items = <<>>
    /\ idx = 0
    /\ results_queue = <<>>
    /\ outcomes = <<>>
    /\ failed_items = <<>>
    /\ checkout = <<>>
    /\ context = "none"
    /\ exc = FALSE
    /\ d = 0
    /\ q = 0
    /\ ret = "none"
    /\ found = FALSE
    /\ wfdClass = "NONE"
    /\ detect = "none"
    /\ polls = 0
    /\ netErr = FALSE
    /\ sizeCond = "na"
    /\ atcClicked = FALSE
    /\ resps = {}
    /\ ui = FALSE
    /\ navPending = FALSE
    /\ backoff = 0
    /\ upc = "none"                 \* update.py is not part of this process
    /\ argv = [kind |-> "none", value |-> 0]
    /\ proxyFile = [state |-> "missing", content |-> <<>>]
    /\ instance_id = 0
    /\ proxies = <<>>
    /\ proxy = "none"
    /\ driver = FALSE

\* ------------------------------------------------- Human-Interrupt Gate

\* Calling captcha_check(page) and coming back at `back`.
CallGate(back) ==
    /\ pc' = "cc_detect"
    /\ gateRet' = back
    /\ detect' = "none"
    /\ polls' = 0

\* Mutant of NeedsWait: wait_for_captcha is called unconditionally.
NeedsWaitAlways(detected) == TRUE

\* captcha_check: detect_captcha decides whether wait_for_captcha runs.
NeedsWait(detected) == detected

\* captcha_check (lines 62-64); detect_captcha swallows every exception.
CaptchaCheck ==
    /\ pc = "cc_detect"
    /\ \E detected \in BOOLEAN :
          /\ detect' = (IF detected THEN "yes" ELSE "no")
          /\ IF NeedsWait(detected)
             THEN pc' = "wfc_input"
             ELSE pc' = "cc_return"
    /\ UNCHANGED <<gateRet, polls, wfdClass>>
    /\ UNCHANGED buyVars
    /\ UNCHANGED acqVars
    /\ navPending' = FALSE
    /\ UNCHANGED backoff
    /\ UNCHANGED updVars

\* wait_for_captcha, lines 53-54: the blocking read of the operator channel.
WfcInput ==
    /\ pc = "wfc_input"
    /\ pc' = "wfc_poll"
    /\ UNCHANGED <<gateRet, detect, polls, wfdClass>>
    /\ UNCHANGED buyVars
    /\ UNCHANGED acqVars
    /\ UNCHANGED navPending
    /\ UNCHANGED backoff
    /\ UNCHANGED updVars

\* Mutant of PollsLeft: one poll too many.
PollsLeftOffByOne(n) == n <= CaptchaPolls

\* The for loop of wait_for_captcha runs while fewer than range(10) polls were made.
PollsLeft(n) == n < CaptchaPolls

\* wait_for_captcha, lines 56-60: one iteration of `for _ in range(10)`, or its end.
WfcPoll ==
    /\ pc = "wfc_poll"
    /\ IF PollsLeft(polls)
       THEN \E detected \in BOOLEAN :
               /\ detect' = (IF detected THEN "yes" ELSE "no")
               /\ polls' = polls + 1
               /\ pc' = IF detected
                        THEN "wfc_poll"       \* time.sleep(3)
                        ELSE "cc_return"      \* break
       ELSE /\ pc' = "cc_return"
            /\ UNCHANGED <<detect, polls>>
    /\ UNCHANGED <<gateRet, wfdClass>>
    /\ UNCHANGED buyVars
    /\ UNCHANGED acqVars
    /\ UNCHANGED navPending
    /\ UNCHANGED backoff
    /\ UNCHANGED updVars

\* captcha_check returns to its caller; its locals are gone.
GateReturn ==
    /\ pc = "cc_return"
    /\ pc' = gateRet
    /\ gateRet' = "none"
    /\ detect' = "none"
    /\ polls' = 0
    /\ UNCHANGED wfdClass
    /\ UNCHANGED buyVars
    /\ UNCHANGED acqVars
    /\ UNCHANGED navPending
    /\ UNCHANGED backoff
    /\ UNCHANGED updVars

\* -------------------------------------------------- Availability Monitor

\* Mutant of QueueStuck: `>=` for `>`.
QueueStuckAtLimit(elapsed) == elapsed >= StuckTimeout

\* Mutant of QueueStuck: the test gives in one re-check interval late.
QueueStuckLate(elapsed) == elapsed > StuckTimeout + SetMax(QueueJitter)

\* Lines 102 and 144: the stuck-timeout test of the gentle-wait loop.
QueueStuck(elapsed) == elapsed > StuckTimeout

\* Mutant of WfdExcept: the exception leaves wait_for_drop.
WfdExceptPropagates(kind) == "raised"

\* Lines 116-121: both handlers of wait_for_drop end normally, so the
\* `while True` of line 92 starts its next iteration.
WfdExcept(kind) == "retry"

\* Lines 118 and 121: the sleep of the handler that catches `kind`.
WfdBackoff(kind) == IF kind = "PWTimeout" THEN 5 ELSE 10

\* wait_for_drop, lines 95-96 and the handlers 116-121.
WfdReload ==
    /\ pc = "wfd_reload"
    /\ \E o \in CallOutcomes :
          IF o = "ok"
          THEN /\ CallGate("wfd_classify")
               /\ navPending' = TRUE
               /\ wfdClass' = "NONE"
               /\ q' = 0
               /\ UNCHANGED <<exc, backoff>>
          ELSE /\ wfdClass' = "NONE"
               /\ q' = 0
               /\ UNCHANGED <<gateVars, navPending>>
               /\ IF WfdExcept(o) = "retry"
                  THEN /\ backoff' = WfdBackoff(o)
                       /\ pc' = "wfd_reload"
                       /\ UNCHANGED exc
                  ELSE /\ backoff' = 0
                       /\ Unwind
    /\ UNCHANGED <<items, idx, results_queue, outcomes, failed_items, checkout, context>>
    /\ UNCHANGED <<d, ret, found, netErr, sizeCond, atcClicked, resps, ui>>
    /\ UNCHANGED updVars

\* wait_for_drop, lines 98-100.
WfdClassify ==
    /\ pc = "wfd_classify"
    /\ \E queued \in BOOLEAN :
          IF queued
          THEN pc' = "wfd_queue" /\ wfdClass' = "QUEUED" /\ q' = 0
          ELSE pc' = "wfd_visible" /\ wfdClass' = "OTHER" /\ UNCHANGED q
    /\ UNCHANGED gateVars
    /\ UNCHANGED buyVars
    /\ UNCHANGED <<d, ret, found, netErr, sizeCond, atcClicked, resps, ui>>
    /\ UNCHANGED navPending
    /\ UNCHANGED backoff
    /\ UNCHANGED updVars

\* Mutant of AfterQueue: without the `continue` the visibility test follows.
AfterQueueFallsThrough == "wfd_visible"

\* Line 106: `continue` after the gentle-wait loop goes to the reload of line 95.
AfterQueue == "wfd_reload"

\* wait_for_drop, lines 101-106: one turn of the gentle-wait loop, or leaving it.
\* wfdClass keeps DEQUEUED when the loop ends because the queue text is gone.
WfdQueue ==
    /\ pc = "wfd_queue"
    /\ \E queued \in BOOLEAN :
          IF ~queued
          THEN pc' = AfterQueue /\ wfdClass' = "DEQUEUED" /\ UNCHANGED q
          ELSE IF QueueStuck(q)
               THEN pc' = AfterQueue /\ wfdClass' = "QUEUED" /\ UNCHANGED q
               ELSE \E j \in QueueJitter :
                       pc' = "wfd_queue" /\ wfdClass' = "QUEUED" /\ q' = q + j
    /\ UNCHANGED gateVars
    /\ UNCHANGED buyVars
    /\ UNCHANGED <<d, ret, found, netErr, sizeCond, atcClicked, resps, ui>>
    /\ UNCHANGED navPending
    /\ UNCHANGED backoff
    /\ UNCHANGED updVars

\* wait_for_drop, lines 108-114.
WfdVisible ==
    /\ pc = "wfd_visible"
    /\ \E visible \in BOOLEAN :
          IF visible
          THEN pc' = "b_loop" /\ wfdClass' = "LIVE" /\ backoff' = 0
          ELSE /\ pc' = "wfd_reload"                        \* sleep 5-15s, loop
               /\ UNCHANGED <<wfdClass, backoff>>
    /\ UNCHANGED gateVars
    /\ UNCHANGED buyVars
    /\ UNCHANGED acqVars
    /\ UNCHANGED navPending
    /\ UNCHANGED updVars

\* ------------------------------------------------ Cart Acquisition Engine

\* Mutant of AtcExcept: the exception is not caught and reaches the caller.
AtcExceptPropagates(kind) == "raised"

\* Lines 216-218: `except Exception` around the whole body turns every
\* exception raised inside add_item_to_cart into the return value False.
AtcExcept(kind) == "False"

\* Line 139: the condition of the item-search loop.
BeforeDeadline(elapsed) == elapsed < Deadline

Sizes == {it.size : it \in ItemSet}

\* str.lower() on the sizes of the model.
Lower(size) ==
    CASE size = "Large" -> "large"
      [] size = "One Size" -> "one size"
      [] OTHER -> size

\* Line 172: `size and size.lower() not in ("one size", "onesize")`.
NeedsSize(size) == size # "" /\ Lower(size) \notin {"one size", "onesize"}

\* What the try block of lines 173-179 raises for each page condition: with no
\* size-dropdown, wait_for(state="visible", timeout=5000) times out; with the
\* dropdown offering the label every call can still succeed or raise; with the
\* dropdown not offering the label, select_option(label=size) waits for the option
\* and times out, or fails with another Playwright error.
SizeRaises(cond) ==
    CASE cond = "absent" -> {"PWTimeout"}
      [] cond = "offered" -> {"ok", "PWTimeout", "Error"}
      [] cond = "missing" -> {"PWTimeout", "Error"}

\* Lines 180-189: `except PWTimeout` logs and goes on, `except Exception` returns False.
SizeHandler(kind) == IF kind = "Error" THEN "return" ELSE "continue"

Methods == {"GET", "POST", "PUT"}
Statuses == {199, 200, 299, 300}
Responses == [method : Methods, cartUrl : BOOLEAN, status : Statuses]

\* Mutant of is_atc_response: the status is not looked at.
is_atc_response_any_status(resp) ==
    /\ resp.method \in {"POST", "PUT"}
    /\ resp.cartUrl

\* Lines 199-205: the predicate handed to page.expect_response.  cartUrl stands for
\* any(p in resp.url for p in ("/cart", "/api/cart", "add_to_cart")).
is_atc_response(resp) ==
    /\ resp.method \in {"POST", "PUT"}
    /\ resp.cartUrl
    /\ 200 <= resp.status /\ resp.status < 300

RECURSIVE SetsUpTo(_, _)
SetsUpTo(S, n) ==
    IF n = 0 THEN {{}}
    ELSE LET smaller == SetsUpTo(S, n - 1)
         IN  smaller \cup {s \cup {x} : s \in smaller, x \in S}

\* The responses that arrive while expect_response waits.
ResponseSets == SetsUpTo(Responses, MaxResponses)

\* add_item_to_cart returns `value` to line 335.
AtcReturn(value) ==
    /\ ret' = value
    /\ pc' = "b_put"

\* Lines 132-137.
AtcLoad ==
    /\ pc = "atc_load"
    /\ \E o \in CallOutcomes :
          IF o = "ok"
          THEN pc' = "atc_search" /\ UNCHANGED ret
          ELSE AtcReturn(AtcExcept(o))
    /\ d' = 0
    /\ found' = FALSE
    /\ UNCHANGED <<q, netErr, sizeCond, atcClicked, resps, ui, wfdClass>>
    /\ UNCHANGED gateVars
    /\ UNCHANGED buyVars
    /\ UNCHANGED navPending
    /\ UNCHANGED backoff
    /\ UNCHANGED updVars

\* Lines 139-142 and, when the loop condition fails, 167-169.
AtcSearch ==
    /\ pc = "atc_search"
    /\ IF BeforeDeadline(d)
       THEN \E queued \in BOOLEAN :
               IF queued
               THEN pc' = "atc_queue" /\ q' = 0 /\ UNCHANGED ret
               ELSE pc' = "atc_locate" /\ UNCHANGED <<q, ret>>
       ELSE AtcReturn("False") /\ UNCHANGED q
    /\ UNCHANGED <<d, found, netErr, sizeCond, atcClicked, resps, ui, wfdClass>>
    /\ UNCHANGED gateVars
    /\ UNCHANGED buyVars
    /\ UNCHANGED navPending
    /\ UNCHANGED backoff
    /\ UNCHANGED updVars

\* Lines 143-149: one turn of the gentle-wait loop, or leaving it and reloading.
AtcQueue ==
    /\ pc = "atc_queue"
    /\ \E queued \in BOOLEAN :
          IF queued /\ ~QueueStuck(q)
          THEN \E j \in QueueJitter :
                  /\ q' = q + j
                  /\ d' = d + j
                  /\ pc' = "atc_queue"
                  /\ UNCHANGED <<ret, netErr, navPending>>
          ELSE \E o \in CallOutcomes :
                  /\ q' = 0                    \* queue_start is not read again
                  /\ IF o = "ok"
                     THEN /\ \E t \in LoadTimes : d' = d + t
                          /\ pc' = "atc_search"
                          /\ navPending' = TRUE     \* line 148, no captcha_check
                          /\ UNCHANGED <<ret, netErr>>
                     ELSE /\ UNCHANGED <<d, navPending>>
                          /\ netErr' = TRUE
                          /\ AtcReturn(AtcExcept(o))
    /\ UNCHANGED <<found, sizeCond, atcClicked, resps, ui, wfdClass>>
    /\ UNCHANGED gateVars
    /\ UNCHANGED buyVars
    /\ UNCHANGED backoff
    /\ UNCHANGED updVars

\* Lines 151-165: is_visible()/click() with their exceptions swallowed, then
\* either `found` or sleep with jitter and reload.
AtcLocate ==
    /\ pc = "atc_locate"
    /\ \E clicked \in BOOLEAN :
          IF clicked
          THEN /\ found' = TRUE
               /\ pc' = "atc_size"
               /\ d' = 0                    \* `deadline` is not read after the loop
               /\ UNCHANGED <<ret, netErr, navPending>>
          ELSE \E k \in SearchJitter, o \in CallOutcomes :
                  /\ UNCHANGED found
                  /\ IF o = "ok"
                     THEN /\ \E t \in LoadTimes : d' = d + k + t
                          /\ pc' = "atc_search"
                          /\ navPending' = TRUE     \* line 165, no captcha_check
                          /\ UNCHANGED <<ret, netErr>>
                     ELSE /\ d' = d + k
                          /\ UNCHANGED navPending
                          /\ netErr' = TRUE
                          /\ AtcReturn(AtcExcept(o))
    /\ UNCHANGED <<q, sizeCond, atcClicked, resps, ui, wfdClass>>
    /\ UNCHANGED gateVars
    /\ UNCHANGED buyVars
    /\ UNCHANGED backoff
    /\ UNCHANGED updVars

\* Lines 172-191.
AtcSize ==
    /\ pc = "atc_size"
    /\ IF NeedsSize(items[idx].size)
       THEN \E cond \in {"absent", "offered", "missing"} :
               \E kind \in SizeRaises(cond) :
                  /\ sizeCond' = cond
                  /\ IF SizeHandler(kind) = "return"
                     THEN AtcReturn("False")
                     ELSE pc' = "atc_button" /\ UNCHANGED ret
       ELSE /\ sizeCond' = "na"
            /\ pc' = "atc_button"
            /\ UNCHANGED ret
    /\ UNCHANGED <<d, q, found, netErr, atcClicked, resps, ui, wfdClass>>
    /\ UNCHANGED gateVars
    /\ UNCHANGED buyVars
    /\ UNCHANGED navPending
    /\ UNCHANGED backoff
    /\ UNCHANGED updVars

\* Lines 194-197.
AtcButton ==
    /\ pc = "atc_button"
    /\ \E o \in CallOutcomes :
          IF o = "ok"
          THEN pc' = "atc_click" /\ UNCHANGED ret
          ELSE AtcReturn(AtcExcept(o))
    /\ UNCHANGED <<d, q, found, netErr, sizeCond, atcClicked, resps, ui, wfdClass>>
    /\ UNCHANGED gateVars
    /\ UNCHANGED buyVars
    /\ UNCHANGED navPending
    /\ UNCHANGED backoff
    /\ UNCHANGED updVars

\* Lines 208-210: click inside expect_response(is_atc_response, timeout=15000).
AtcClick ==
    /\ pc = "atc_click"
    /\ \E o \in CallOutcomes :
          IF o = "ok"
          THEN \E rs \in ResponseSets, shown \in BOOLEAN :
                  /\ atcClicked' = TRUE
                  /\ resps' = rs
                  /\ ui' = shown
                  /\ IF \E r \in rs : is_atc_response(r)
                     THEN pc' = "atc_evidence" /\ UNCHANGED ret
                     ELSE AtcReturn(AtcExcept("PWTimeout"))
          ELSE /\ AtcReturn(AtcExcept(o))
               /\ UNCHANGED <<atcClicked, resps, ui>>
    /\ UNCHANGED <<d, q, found, netErr, sizeCond, wfdClass>>
    /\ UNCHANGED gateVars
    /\ UNCHANGED buyVars
    /\ UNCHANGED navPending
    /\ UNCHANGED backoff
    /\ UNCHANGED updVars

\* Mutant of EvidenceOutcome: the missing evidence is ignored.
EvidenceIgnored(seen) == "True"

\* Lines 212-214: wait_for_selector raises PWTimeout unless the evidence is seen.
EvidenceOutcome(seen) == IF seen THEN "True" ELSE AtcExcept("PWTimeout")

\* Lines 212-214: wait_for_selector(..., timeout=10000).
AtcEvidence ==
    /\ pc = "atc_evidence"
    /\ \E appears \in BOOLEAN :
          /\ ui' = (ui \/ appears)
          /\ AtcReturn(EvidenceOutcome(ui \/ appears))
    /\ UNCHANGED <<d, q, found, netErr, sizeCond, atcClicked, resps, wfdClass>>
    /\ UNCHANGED gateVars
    /\ UNCHANGED buyVars
    /\ UNCHANGED navPending
    /\ UNCHANGED backoff
    /\ UNCHANGED updVars

\* --------------------------------------------------------- Orchestration

ResetAcq ==
    /\ d' = 0
    /\ q' = 0
    /\ ret' = "none"
    /\ found' = FALSE
    /\ netErr' = FALSE
    /\ sizeCond' = "na"
    /\ atcClicked' = FALSE
    /\ resps' = {}
    /\ ui' = FALSE

\* buy(items), lines 318-323: a new call, with the module-level results_queue
\* as the earlier calls of this process left it.
BuyStart ==
    /\ pc = "idle"
    /\ Len(results_queue) <= MaxStale
    /\ \E its \in ItemLists : items' = its
    /\ idx' = 0
    /\ outcomes' = <<>>
    /\ failed_items' = <<>>
    /\ checkout' = <<>>
    /\ \E o \in CallOutcomes :
          IF o = "ok"
          THEN context' = "open" /\ exc' = FALSE /\ pc' = "b_new_page"
          ELSE context' = "none" /\ exc' = TRUE /\ pc' = "idle"    \* create_context raised
    /\ wfdClass' = "NONE"
    /\ UNCHANGED results_queue
    /\ UNCHANGED gateVars
    /\ UNCHANGED acqVars
    /\ navPending' = FALSE
    /\ UNCHANGED backoff
    /\ UNCHANGED updVars

\* Line 324: context.new_page(), before the try block.
BNewPage ==
    /\ pc = "b_new_page"
    /\ \E o \in CallOutcomes :
          IF o = "ok"
          THEN pc' = "b_goto" /\ UNCHANGED exc
          ELSE pc' = "idle" /\ exc' = TRUE
    /\ UNCHANGED <<items, idx, results_queue, outcomes, failed_items, checkout, context>>
    /\ UNCHANGED <<wfdClass>>
    /\ UNCHANGED gateVars
    /\ UNCHANGED acqVars
    /\ UNCHANGED navPending
    /\ UNCHANGED backoff
    /\ UNCHANGED updVars

\* Lines 327-328.
BGoto ==
    /\ pc = "b_goto"
    /\ \E o \in CallOutcomes :
          IF o = "ok"
          THEN CallGate("b_monitor") /\ navPending' = TRUE /\ UNCHANGED exc
          ELSE Unwind /\ UNCHANGED <<gateVars, navPending>>
    /\ UNCHANGED <<items, idx, results_queue, outcomes, failed_items, checkout, context>>
    /\ UNCHANGED <<wfdClass>>
    /\ UNCHANGED acqVars
    /\ UNCHANGED backoff
    /\ UNCHANGED updVars

\* Lines 331-332.
BMonitor ==
    /\ pc = "b_monitor"
    /\ pc' = IF items # <<>> THEN "wfd_reload" ELSE "b_loop"
    /\ UNCHANGED <<wfdClass>>
    /\ UNCHANGED buyVars
    /\ UNCHANGED gateVars
    /\ UNCHANGED acqVars
    /\ UNCHANGED navPending
    /\ UNCHANGED backoff
    /\ UNCHANGED updVars

\* Mutant of LoopContinues: the loop ends at the first failed item.
LoopStopsOnFailure(i, its, outs) ==
    i < Len(its) /\ (outs = <<>> \/ outs[Len(outs)])

\* Line 334: the for loop goes on while items are left.
LoopContinues(i, its, outs) == i < Len(its)

\* Lines 334-335: the next item, or the end of the loop.
BLoop ==
    /\ pc = "b_loop"
    /\ IF LoopContinues(idx, items, outcomes)
       THEN idx' = idx + 1 /\ pc' = "atc_load"
       ELSE pc' = "b_aggregate" /\ UNCHANGED idx
    /\ UNCHANGED <<items, results_queue, outcomes, failed_items, checkout, context, exc>>
    /\ UNCHANGED <<wfdClass>>
    /\ UNCHANGED gateVars
    /\ UNCHANGED acqVars
    /\ UNCHANGED navPending
    /\ UNCHANGED backoff
    /\ UNCHANGED updVars

\* Lines 335-337: the value comes back, is queued, and the gate runs.
BPut ==
    /\ pc = "b_put"
    /\ IF ret = "raised"
       THEN /\ Unwind
            /\ UNCHANGED <<results_queue, outcomes>>
            /\ UNCHANGED gateVars
       ELSE /\ results_queue' = Append(results_queue, <<items[idx].keywords, ret = "True">>)
            /\ outcomes' = Append(outcomes, ret = "True")
            /\ CallGate("b_after_item")
            /\ UNCHANGED exc
    /\ ResetAcq
    /\ UNCHANGED <<items, idx, failed_items, checkout, context>>
    /\ UNCHANGED <<wfdClass>>
    /\ UNCHANGED navPending
    /\ UNCHANGED backoff
    /\ UNCHANGED updVars

\* Lines 339-341.
BAfterItem ==
    /\ pc = "b_after_item"
    /\ IF idx < Len(items)
       THEN \E o \in CallOutcomes :
               IF o = "ok"
               THEN CallGate("b_loop") /\ navPending' = TRUE /\ UNCHANGED exc
               ELSE Unwind /\ UNCHANGED <<gateVars, navPending>>
       ELSE pc' = "b_loop" /\ UNCHANGED <<exc, navPending>> /\ UNCHANGED gateVars
    /\ UNCHANGED <<items, idx, results_queue, outcomes, failed_items, checkout, context>>
    /\ UNCHANGED <<wfdClass>>
    /\ UNCHANGED acqVars
    /\ UNCHANGED backoff
    /\ UNCHANGED updVars

\* Mutant of Failed: no queued entry counts as a failure.
FailedNone(queue) == <<>>

\* Lines 343-347: the keywords of the queued entries whose success is False.
RECURSIVE Failed(_)
Failed(queue) ==
    IF queue = <<>> THEN <<>>
    ELSE IF Head(queue)[2]
         THEN Failed(Tail(queue))
         ELSE <<Head(queue)[1]>> \o Failed(Tail(queue))

\* Lines 343-351: drain results_queue, then return or go on to checkout.
BAggregate ==
    /\ pc = "b_aggregate"
    /\ failed_items' = Failed(results_queue)
    /\ results_queue' = <<>>
    /\ pc' = IF Failed(results_queue) # <<>> THEN "b_finally" ELSE "b_click_checkout"
    /\ UNCHANGED <<items, idx, outcomes, checkout, context, exc>>
    /\ UNCHANGED <<wfdClass>>
    /\ UNCHANGED gateVars
    /\ UNCHANGED acqVars
    /\ UNCHANGED navPending
    /\ UNCHANGED backoff
    /\ UNCHANGED updVars

\* Lines 353-354; click_checkout (220-228) swallows its exceptions.
BClickCheckout ==
    /\ pc = "b_click_checkout"
    /\ \E o \in CallOutcomes :
          checkout' = Append(checkout, [op |-> "click_checkout", ok |-> (o = "ok")])
    /\ CallGate("b_fill_info")
    /\ UNCHANGED <<items, idx, results_queue, outcomes, failed_items, context, exc>>
    /\ UNCHANGED <<wfdClass>>
    /\ UNCHANGED acqVars
    /\ UNCHANGED navPending
    /\ UNCHANGED backoff
    /\ UNCHANGED updVars

\* Line 355; fill_info (232-303) swallows its exceptions.
BFillInfo ==
    /\ pc = "b_fill_info"
    /\ \E o \in CallOutcomes :
          checkout' = Append(checkout, [op |-> "fill_info", ok |-> (o = "ok")])
    /\ pc' = "b_send_order"
    /\ UNCHANGED <<items, idx, results_queue, outcomes, failed_items, context, exc>>
    /\ UNCHANGED <<wfdClass>>
    /\ UNCHANGED gateVars
    /\ UNCHANGED acqVars
    /\ UNCHANGED navPending
    /\ UNCHANGED backoff
    /\ UNCHANGED updVars

\* Line 356; send_order (307-314) swallows its exceptions.
BSendOrder ==
    /\ pc = "b_send_order"
    /\ \E o \in CallOutcomes :
          checkout' = Append(checkout, [op |-> "send_order", ok |-> (o = "ok")])
    /\ pc' = "b_hold"
    /\ UNCHANGED <<items, idx, results_queue, outcomes, failed_items, context, exc>>
    /\ UNCHANGED <<wfdClass>>
    /\ UNCHANGED gateVars
    /\ UNCHANGED acqVars
    /\ UNCHANGED navPending
    /\ UNCHANGED backoff
    /\ UNCHANGED updVars

\* Lines 357-358: time.sleep(9999), then page.wait_for_timeout(2000).
BHold ==
    /\ pc = "b_hold"
    /\ \E o \in CallOutcomes :
          IF o = "ok"
          THEN pc' = "b_finally" /\ UNCHANGED exc
          ELSE Unwind
    /\ UNCHANGED <<items, idx, results_queue, outcomes, failed_items, checkout, context>>
    /\ UNCHANGED <<wfdClass>>
    /\ UNCHANGED gateVars
    /\ UNCHANGED acqVars
    /\ UNCHANGED navPending
    /\ UNCHANGED backoff
    /\ UNCHANGED updVars

\* Lines 360-361: context.close(), and buy() is left.
BFinally ==
    /\ pc = "b_finally"
    /\ context' = "closed"
    /\ pc' = "idle"
    /\ UNCHANGED <<items, idx, results_queue, outcomes, failed_items, checkout, exc>>
    /\ UNCHANGED <<wfdClass>>
    /\ UNCHANGED gateVars
    /\ UNCHANGED acqVars
    /\ navPending' = FALSE   \* the page is gone with its context
    /\ UNCHANGED backoff
    /\ UNCHANGED updVars

Next ==
    \/ BuyStart
    \/ BNewPage
    \/ BGoto
    \/ BMonitor
    \/ BLoop
    \/ BPut
    \/ BAfterItem
    \/ BAggregate
    \/ BClickCheckout
    \/ BFillInfo
    \/ BSendOrder
    \/ BHold
    \/ BFinally
    \/ CaptchaCheck
    \/ WfcInput
    \/ WfcPoll
    \/ GateReturn
    \/ WfdReload
    \/ WfdClassify
    \/ WfdQueue
    \/ WfdVisible
    \/ AtcLoad
    \/ AtcSearch
    \/ AtcQueue
    \/ AtcLocate
    \/ AtcSize
    \/ AtcButton
    \/ AtcClick
    \/ AtcEvidence

Spec == Init /\ [][Next]_vars

\* One call of add_item_to_cart on its own: buy() has just called it (line 335)
\* for the only item of its list, in the first call of the process.
InitAcq ==
    /\ pc = "atc_load"
    /\ gateRet = "none"
    /\ \E it \in ItemSet : items = <<it>>
    /\ idx = 1
    /\ results_queue = <<>>
    /\ outcomes = <<>>
    /\ failed_items = <<>>
    /\ checkout = <<>>
    /\ context = "open"
    /\ exc = FALSE
    /\ d = 0
    /\ q = 0
    /\ ret = "none"
    /\ found = FALSE
    /\ wfdClass = "LIVE"
    /\ detect = "none"
    /\ polls = 0
    /\ netErr = FALSE
    /\ sizeCond = "na"
    /\ atcClicked = FALSE
    /\ resps = {}
    /\ ui = FALSE
    /\ navPending = FALSE
    /\ backoff = 0
    /\ upc = "none"                 \* update.py is not part of this process
    /\ argv = [kind |-> "none", value |-> 0]
    /\ proxyFile = [state |-> "missing", content |-> <<>>]
    /\ instance_id = 0
    /\ proxies = <<>>
    /\ proxy = "none"
    /\ driver = FALSE

NextAcq ==
    \/ AtcLoad
    \/ AtcSearch
    \/ AtcQueue
    \/ AtcLocate
    \/ AtcSize
    \/ AtcButton
    \/ AtcClick
    \/ AtcEvidence

\* The call runs to its return: the thread always takes its next step.
AcqSpec == InitAcq /\ [][NextAcq]_vars /\ WF_vars(NextAcq)

\* One call of wait_for_drop on its own: buy() has just called it (line 332)
\* for a non-empty list, in the first call of the process, after the gate of
\* line 328.
InitMon ==
    /\ pc = "wfd_reload"
    /\ gateRet = "none"
    /\ items \in ItemLists \ {<<>>}
    /\ idx = 0
    /\ results_queue = <<>>
    /\ outcomes = <<>>
    /\ failed_items = <<>>
    /\ checkout = <<>>
    /\ context = "open"
    /\ exc = FALSE
    /\ d = 0
    /\ q = 0
    /\ ret = "none"
    /\ found = FALSE
    /\ wfdClass = "NONE"
    /\ detect = "none"
    /\ polls = 0
    /\ netErr = FALSE
    /\ sizeCond = "na"
    /\ atcClicked = FALSE
    /\ resps = {}
    /\ ui = FALSE
    /\ navPending = FALSE
    /\ backoff = 0
    /\ upc = "none"                 \* update.py is not part of this process
    /\ argv = [kind |-> "none", value |-> 0]
    /\ proxyFile = [state |-> "missing", content |-> <<>>]
    /\ instance_id = 0
    /\ proxies = <<>>
    /\ proxy = "none"
    /\ driver = FALSE

NextMon ==
    \/ WfdReload
    \/ WfdClassify
    \/ WfdQueue
    \/ WfdVisible
    \/ CaptchaCheck
    \/ WfcInput
    \/ WfcPoll
    \/ GateReturn

MonSpec == InitMon /\ [][NextMon]_vars

\* =============================================================== update.py

\* Python's list indexing: i is a valid index of a list of n elements.
PyIndexOk(i, n) == 0 - n <= i /\ i < n

\* Python's list indexing: lst[i], negative i counting from the end.
PyIndex(lst, i) == IF i >= 0 THEN lst[i + 1] ELSE lst[Len(lst) + i + 1]

\* Line 30: the range test made before the proxy is selected.
ExceedsProxies(i, n) == i >= n

\* Line 18: int(sys.argv[1]) if there is an argument, else 0.
UpdArgv ==
    /\ upc = "argv"
    /\ IF argv.kind = "junk"
       THEN upc' = "raised" /\ UNCHANGED instance_id          \* ValueError
       ELSE /\ instance_id' = IF argv.kind = "int" THEN argv.value ELSE 0
            /\ upc' = "load"
    /\ UNCHANGED <<argv, proxyFile, proxies, proxy, driver>>
    /\ UNCHANGED botVars

\* Lines 21-27: open and json.load, both failures re-raised as Exception.
UpdLoad ==
    /\ upc = "load"
    /\ IF proxyFile.state = "valid"
       THEN proxies' = proxyFile.content /\ upc' = "select"
       ELSE upc' = "raised" /\ UNCHANGED proxies
    /\ UNCHANGED <<argv, proxyFile, instance_id, proxy, driver>>
    /\ UNCHANGED botVars

\* Lines 30-32: the range test, then proxies[instance_id].
UpdSelect ==
    /\ upc = "select"
    /\ IF ExceedsProxies(instance_id, Len(proxies))
       THEN upc' = "raised" /\ UNCHANGED proxy
       ELSE IF PyIndexOk(instance_id, Len(proxies))
            THEN proxy' = PyIndex(proxies, instance_id) /\ upc' = "driver"
            ELSE upc' = "raised" /\ UNCHANGED proxy          \* IndexError
    /\ UNCHANGED <<argv, proxyFile, instance_id, proxies, driver>>
    /\ UNCHANGED botVars

\* Lines 35-52: the options, then webdriver.Chrome(...).
UpdDriver ==
    /\ upc = "driver"
    /\ \E o \in CallOutcomes :
          IF o = "ok"
          THEN driver' = TRUE /\ upc' = "done"
          ELSE upc' = "raised" /\ UNCHANGED driver
    /\ UNCHANGED <<argv, proxyFile, instance_id, proxies, proxy>>
    /\ UNCHANGED botVars

\* The script is started with some argument and some proxy file.
InitUpd ==
    /\ pc = "idle"
    /\ gateRet = "none"
    /\ items = <<>>
    /\ idx = 0
    /\ results_queue = <<>>
    /\ outcomes = <<>>
    /\ failed_items = <<>>
    /\ checkout = <<>>
    /\ context = "none"
    /\ exc = FALSE
    /\ d = 0
    /\ q = 0
    /\ ret = "none"
    /\ found = FALSE
    /\ wfdClass = "NONE"
    /\ detect = "none"
    /\ polls = 0
    /\ netErr = FALSE
    /\ sizeCond = "na"
    /\ atcClicked = FALSE
    /\ resps = {}
    /\ ui = FALSE
    /\ navPending = FALSE
    /\ backoff = 0
    /\ upc = "argv"
    /\ argv \in Argvs
    /\ proxyFile \in ProxyFiles
    /\ instance_id = 0
    /\ proxies = <<>>
    /\ proxy = "none"
    /\ driver = FALSE

NextUpd ==
    \/ UpdArgv
    \/ UpdLoad
    \/ UpdSelect
    \/ UpdDriver

UpdSpec == InitUpd /\ [][NextUpd]_vars

TypeOK ==
    /\ items \in ItemLists
    /\ idx \in 0..Len(items)
    /\ ret \in {"none", "True", "False", "raised"}
    /\ context \in {"none", "open", "closed"}
    /\ polls \in 0..CaptchaPolls
    /\ detect \in {"none", "yes", "no"}
    /\ navPending \in BOOLEAN
    /\ backoff \in {0, 5, 10}
    /\ upc \in {"none", "argv", "load", "select", "driver", "done", "raised"}
    /\ argv \in Argvs
    /\ proxyFile \in ProxyFiles
    /\ instance_id \in ArgvInts
    /\ proxies \in ProxyLists
    /\ proxy \in ProxySet \cup {"none"}
    /\ driver \in BOOLEAN

\* ================================================================ claims

AtcPcs == {"atc_load", "atc_search", "atc_queue", "atc_locate", "atc_size",
           "atc_button", "atc_click", "atc_evidence"}

\* Every item of the running call has a result and every result is SUCCESS.
AllSuccess == Len(outcomes) = Len(items) /\ \A i \in 1..Len(outcomes) : outcomes[i]

\* A response with a mutating method, a cart-endpoint URL and a 2xx status arrived.
AckArrived ==
    \E r \in resps : r.method \in {"POST", "PUT"} /\ r.cartUrl /\ r.status \in 200..299

\* C1: when buy() ends without an exception, the checkout pipeline was invoked
\* if and only if every item's result is SUCCESS; with a FAILED result it is
\* never invoked.
C1_CheckoutIffAllSuccess ==
    /\ (checkout # <<>> => AllSuccess)
    /\ (pc = "b_finally" /\ ~exc => (checkout # <<>> <=> AllSuccess))

\* C2: wait_for_drop is about to reload only when the last classification since
\* the previous reload is not QUEUED, or the queue wait has lasted more than 300s.
C2_NoReloadWhileQueued ==
    pc = "wfd_reload" => (wfdClass # "QUEUED" \/ q > StuckTimeout)

C2_Witness == pc = "wfd_reload" /\ wfdClass = "QUEUED" /\ q > StuckTimeout

\* C3 as stated: add_item_to_cart returns True or False, and it returns within
\* its deadline (allowing the search iteration that was under way at the deadline
\* to finish its sleep and reload).
C3_WithinDeadline ==
    pc = "b_put" =>
        /\ ret \in {"True", "False"}
        /\ d <= Deadline + SetMax(SearchJitter) + SetMax(LoadTimes)

\* C3 as amended: every call of add_item_to_cart returns, with True or False and
\* never an exception; no search iteration starts at or after the deadline, but
\* the call can run past it by a queue wait: at most the stuck-timeout plus one
\* re-check interval plus one reload.
C3_Terminates ==
    /\ [](pc = "b_put" => ret \in {"True", "False"})
    /\ [](pc = "atc_locate" => d < Deadline)
    /\ [](d <= Deadline + StuckTimeout + SetMax(QueueJitter) + SetMax(LoadTimes))
    /\ ((pc \in AtcPcs) ~> (pc = "b_put"))

C3_Witness ==
    /\ pc = "b_put"
    /\ ret = "False"
    /\ d >= Deadline + StuckTimeout

\* C4: if the add-to-cart control was activated and no POST/PUT response from a
\* cart endpoint with a 2xx status arrived in the window, the result is FAILED,
\* whatever the page shows.
C4_NoAckFails ==
    (pc = "b_put" /\ atcClicked /\ ~AckArrived) => ret = "False"

C4_Witness == pc = "b_put" /\ atcClicked /\ ~AckArrived /\ ui /\ ret = "False"

\* C5: when buy() aggregates the results, and whenever it has failures to report,
\* add_item_to_cart has been called for every item of the list and the queue ends
\* with one entry per item, in order.
C5_AllItemsAttempted ==
    /\ failed_items # <<>> => Len(outcomes) = Len(items)
    /\ pc = "b_aggregate" =>
          /\ Len(outcomes) = Len(items)
          /\ Len(results_queue) >= Len(items)
          /\ \A i \in 1..Len(items) :
                results_queue[Len(results_queue) - Len(items) + i]
                    = <<items[i].keywords, outcomes[i]>>

C5_Witness ==
    pc = "b_aggregate" /\ Len(items) = 2 /\ outcomes = <<FALSE, TRUE>>

\* C6 as stated: when the gate returns after having waited for the operator,
\* the last challenge detection was negative.
C6_GateReturnsClear ==
    (pc = "cc_return" /\ polls > 0) => detect = "no"

\* C6 as amended: the gate re-polls at most 10 times; it stays in the loop only
\* while the overlay is detected, and when it returns the last detection was
\* negative or all 10 polls found the overlay.
C6_GateReturnsClearOrExhausted ==
    /\ (pc = "cc_return" /\ polls > 0) => (detect = "no" \/ polls = CaptchaPolls)
    /\ (pc = "wfc_poll" /\ polls > 0) => detect = "yes"

C6_Witness == pc = "cc_return" /\ polls = CaptchaPolls /\ detect = "yes"

\* C7: a captcha_check that detects no overlay goes straight to its return,
\* without the operator read or a poll, and changes nothing but the position;
\* so does its return.
C7_GateNoop ==
    [][/\ (pc = "cc_detect" /\ detect' = "no") =>
              /\ pc' = "cc_return"
              /\ UNCHANGED <<buyVars, acqVars, wfdClass, gateRet, polls>>
       /\ (pc = "cc_return" /\ polls = 0) =>
              /\ detect = "no"
              /\ pc' = gateRet
              /\ UNCHANGED <<buyVars, acqVars, wfdClass>>]_vars

C7_Witness == pc = "cc_return" /\ detect = "no" /\ polls = 0

\* C8: a reload that raised in the item-search loop does not make the item
\* FAILED while the deadline has not passed.
C8_TransientRetried ==
    ~(pc = "b_put" /\ netErr /\ ret = "False" /\ BeforeDeadline(d))

\* C9: at size selection, an absent selector lets the acquisition go on to the
\* add-to-cart step, and a selector that does not offer the size makes the item
\* FAILED there and then, so that the add-to-cart control is never activated.
C9_SizeSelection ==
    [][pc = "atc_size" =>
          /\ sizeCond' = "absent" => pc' = "atc_button"
          /\ sizeCond' = "missing" => (pc' = "b_put" /\ ret' = "False")]_vars

\* C10: SUCCESS is returned only when the acknowledgment and the UI evidence
\* were both observed; an acknowledged click without the evidence is FAILED.
C10_AckAndEvidence ==
    pc = "b_put" =>
        /\ ret = "True" => (atcClicked /\ AckArrived /\ ui)
        /\ (atcClicked /\ AckArrived /\ ~ui) => ret = "False"

C10_Witness == pc = "b_put" /\ atcClicked /\ AckArrived /\ ~ui /\ ret = "False"

\* The positions whose step begins by classifying the page or looking up an
\* element on it (is_queue_state, is_item_visible, locators, selectors).
LookupPcs == {"wfd_classify", "wfd_queue", "wfd_visible", "atc_queue", "atc_locate",
              "atc_size", "atc_button", "atc_click", "atc_evidence",
              "b_click_checkout", "b_fill_info", "b_send_order"}

\* C11: after each reload or navigation issued by the monitor, the acquisition
\* loop or the item loop, the CAPTCHA gate runs before the next page
\* classification or element lookup: no step that classifies the page or looks
\* up an element starts while a navigation is still waiting for its gate.
C11_GateAfterNavigation ==
    navPending =>
        /\ pc \notin LookupPcs
        /\ ~(pc = "atc_search" /\ BeforeDeadline(d))

\* C12: a checkout failure is terminal: no checkout operation is executed after
\* a failed one (fill_info and send_order not after a failed click_checkout,
\* send_order not after a failed fill_info), none is executed twice, and no
\* failure of a checkout operation leaves buy() as an exception.
C12_CheckoutFailureTerminal ==
    /\ \A i \in 1..Len(checkout) : \A j \in 1..Len(checkout) :
           i < j => checkout[i].ok /\ checkout[i].op # checkout[j].op
    /\ pc \in {"b_fill_info", "b_send_order", "b_hold"} => ~exc

\* The running call of buy() is inside wait_for_drop (its gate included).
InMonitor ==
    \/ pc \in {"wfd_reload", "wfd_classify", "wfd_queue", "wfd_visible"}
    \/ pc \in {"cc_detect", "wfc_input", "wfc_poll", "cc_return"} /\ gateRet = "wfd_classify"

\* C13: wait_for_drop is left only by its normal return, taken when the marker
\* is seen visible on a page classified not QUEUED (state LIVE), never with an
\* exception; an error in a poll iteration is followed by the handler's fixed
\* sleep (5s or 10s) and a new iteration that starts with the reload.
C13_MonitorReturnsOnlyLive ==
    /\ [](backoff # 0 => InMonitor /\ ~exc)
    /\ [][ /\ (InMonitor /\ ~InMonitor' =>
                  /\ pc = "wfd_visible" /\ wfdClass = "OTHER"
                  /\ pc' = "b_loop" /\ wfdClass' = "LIVE" /\ ~exc')
           /\ (InMonitor /\ backoff' # backoff /\ pc' # "b_loop" =>
                  /\ pc = "wfd_reload" /\ pc' = "wfd_reload"
                  /\ backoff' \in {5, 10}) ]_vars

\* The monitor is about to test visibility after an exception handler ran.
C13_Witness ==
    pc = "wfd_visible" /\ wfdClass = "OTHER" /\ backoff = 5

\* C14: a page that stays QUEUED makes wait_for_drop leave the gentle-wait loop
\* for the reload at the first re-check made more than 300s after the wait
\* began: never at 300s or before, and, with re-checks 5-10s apart, at most one
\* interval after 300s; a re-check made after 300s always goes to the reload.
C14_StuckTimeoutReload ==
    /\ [](pc = "wfd_queue" => q <= StuckTimeout + SetMax(QueueJitter))
    /\ [](pc = "wfd_reload" /\ wfdClass = "QUEUED" =>
             q > StuckTimeout /\ q <= StuckTimeout + SetMax(QueueJitter))
    /\ [][pc = "wfd_queue" /\ q > StuckTimeout =>
             pc' = "wfd_reload" /\ q' = q]_vars

\* The loop was left by the stuck-timeout at the latest possible re-check.
C14_Witness ==
    pc = "wfd_reload" /\ wfdClass = "QUEUED" /\ q = StuckTimeout + SetMax(QueueJitter)

\* The checkout operations in the order buy() calls them (lines 353-356).
CheckoutOrder == <<"click_checkout", "fill_info", "send_order">>

\* The parts of the stage ordering that concern the monitor, the acquisitions
\* and the order of the checkout operations.
StagesInOrder ==
    /\ pc \in AtcPcs => wfdClass = "LIVE" /\ Len(outcomes) = idx - 1
    /\ pc = "b_put" => Len(outcomes) = idx - 1
    /\ Len(outcomes) <= idx
    /\ Len(checkout) <= Len(CheckoutOrder)
    /\ \A i \in 1..Len(checkout) : checkout[i].op = CheckoutOrder[i]
    /\ checkout # <<>> => Len(outcomes) = Len(items) /\ pc \notin AtcPcs

\* C15: within one run of buy() the monitor has returned (LIVE) before any
\* acquisition starts, the acquisitions run once per item in list order with one
\* result each, and when all items succeed and the run ends without an
\* exception, click_checkout, fill_info and send_order have each run once, in
\* that order, after the last acquisition.
C15_StageOrdering ==
    /\ StagesInOrder
    /\ pc = "b_finally" /\ ~exc /\ AllSuccess =>
          [i \in 1..Len(checkout) |-> checkout[i].op] = CheckoutOrder

\* C16: an item whose marker was never seen visible (and clicked) gets the
\* result FAILED without any size selection or add-to-cart click, and a run
\* that has a FAILED result never invokes the checkout pipeline, whatever the
\* results of the items before it.
C16_NotFoundFails ==
    /\ ~found => pc \notin {"atc_size", "atc_button", "atc_click", "atc_evidence"}
    /\ pc = "b_put" /\ ~found =>
          ret = "False" /\ sizeCond = "na" /\ ~atcClicked /\ resps = {}
    /\ (\E i \in 1..Len(outcomes) : ~outcomes[i]) => checkout = <<>>

\* The second item is given up at the deadline after the first one succeeded.
C16_Witness ==
    /\ pc = "b_put" /\ ~found /\ ~netErr /\ d >= Deadline
    /\ idx = 2 /\ outcomes = <<TRUE>>

\* C17: whenever buy() has been left, a context it created has been closed:
\* no call ends, normally or by an exception at any step, with its context
\* still open, and the context is closed only by the one `finally` step.
C17_ContextClosedOnExit ==
    /\ pc = "idle" => context # "open"
    /\ context = "closed" => pc = "idle"

\* C18: a browser driver exists only if the start-up configuration was sound:
\* the proxy file was there and valid JSON, and the instance index is an index
\* into the proxy list counted from zero (0 <= instance_id < len(proxies)); for
\* any other index, negative ones included, start-up raises before the driver
\* is created.
C18_ConfigErrorFatal ==
    driver =>
        /\ proxyFile.state = "valid"
        /\ instance_id \in 0..(Len(proxies) - 1)

\* C19: at the moment a call of buy() aggregates its results, results_queue
\* holds exactly one entry per item of that call, in order, each with that
\* item's keywords and result, and nothing left by an earlier call.
C19_QueueHoldsOwnResults ==
    pc = "b_aggregate" =>
        /\ Len(results_queue) = Len(items)
        /\ \A i \in 1..Len(items) :
               results_queue[i] = <<items[i].keywords, outcomes[i]>>

\* C20: wait_for_drop tests item visibility, and so reports LIVE, only on a
\* page that was reloaded and whose one classification since that reload was
\* not QUEUED; when the gentle-wait loop ends, by the queue going away or by
\* the stuck-timeout, the next step is the reload.
C20_NoStaleLive ==
    /\ [](pc = "wfd_visible" => wfdClass = "OTHER")
    /\ [][ /\ (pc = "wfd_queue" /\ pc' # "wfd_queue" => pc' = "wfd_reload")
           /\ (wfdClass \in {"QUEUED", "DEQUEUED"} /\ wfdClass' \notin {"QUEUED", "DEQUEUED"} =>
                  pc = "wfd_reload" /\ wfdClass' = "NONE") ]_vars

\* The gentle-wait loop has just ended because the queue went away.
C20_Witness ==
    pc = "wfd_reload" /\ wfdClass = "DEQUEUED" /\ q > 0

====
